---- MODULE Spec2Model ----
(***************************************************************************)
(* Model of the hex-ui application (src/src/app.rs): the HexGameUi state   *)
(* (a game session and the configured board size), the side panel's size   *)
(* slider and reset button, and the HexWidget frame handler (hit test of   *)
(* the pointer, human move, AI reply).                                     *)
(*                                                                         *)
(* The rules engine (hexgame::Game), the game wrapper                      *)
(* (hexgame_ai::MctsHexGame) and the search (mcts::Mcts) are external      *)
(* crates; they are modelled by their contracts (spec.md sections 3-6).    *)
(*                                                                         *)
(* Lengths are in 1/100 of a pixel, so that the f32 products with 0.5 and  *)
(* 0.87 of app.rs:172-173 are integers.                                    *)
(***************************************************************************)
EXTENDS Integers, FiniteSets, Sequences, TLC

VARIABLES game, configured_size, panicked, ev

vars == <<game, configured_size, panicked, ev>>

-----------------------------------------------------------------------------
(* Bounds of the model and constants of the program *)

\* largest board size the slider is moved to, and on which moves are explored
MaxSize == 2

\* app.rs:28-29, the size of the session built by HexGameUi::default()
DefaultSize == 5

\* app.rs:84, upper end of the slider range 0..=17
SliderMax == 17

\* app.rs:34
HEX_SIZE == 40

\* app.rs:167, closest_distance starts at f32::MAX: above every distance
F32_MAX == 2147483647

-----------------------------------------------------------------------------
(* hexgame: colours, status, board *)

Black == "Black"
White == "White"
None == "None"
Colors == {Black, White}

Other(c) == IF c = Black THEN White ELSE Black

\* index of a player: the N-th move of a session is made by player N % 2
PlayerIndex(c) == IF c = Black THEN 0 ELSE 1

Ongoing == [tag |-> "Ongoing", player |-> None]
Finished(c) == [tag |-> "Finished", player |-> c]

Cells(size) == (0 .. size - 1) \X (0 .. size - 1)

NoCell == <<-1, -1>>

InBounds(g, c) == c \in Cells(g.size)

EmptyCells(g) == {c \in Cells(g.size) : g.board[c] = None}

Stones(g) == Cardinality({c \in Cells(g.size) : g.board[c] # None})

\* two cells of the rhombic hex grid are neighbours
Adjacent(c, d) ==
    LET dx == d[1] - c[1]
        dy == d[2] - c[2]
    IN  \/ (dx = 0 /\ (dy = 1 \/ dy = -1))
        \/ (dy = 0 /\ (dx = 1 \/ dx = -1))
        \/ (dx = 1 /\ dy = -1)
        \/ (dx = -1 /\ dy = 1)

RECURSIVE Reach(_, _)
\* the cells of `own` connected to the cells of `seen`
Reach(own, seen) ==
    LET more == {d \in own \ seen : \E c \in seen : Adjacent(c, d)}
    IN  IF more = {} THEN seen ELSE Reach(own, seen \cup more)

\* Black joins the rows y = 0 and y = size-1, White the columns x = 0 and
\* x = size-1
Connected(size, board, color) ==
    LET own == {c \in Cells(size) : board[c] = color}
        k == IF color = Black THEN 2 ELSE 1
        start == {c \in own : c[k] = 0}
    IN  \E c \in Reach(own, start) : c[k] = size - 1

\* Game::new: empty board, Black to move, Ongoing
GameNew(size) ==
    [size |-> size,
     board |-> [c \in Cells(size) |-> None],
     current_player |-> Black,
     status |-> Ongoing]

\* Game::play: rejected (state unchanged) when the game is over or the cell
\* is out of bounds or occupied; otherwise places the current player's
\* stone, updates the status and flips the current player
Play(g, c) ==
    IF g.status # Ongoing \/ ~InBounds(g, c) \/ g.board[c] # None
    THEN [ok |-> FALSE, game |-> g]
    ELSE LET b == [g.board EXCEPT ![c] = g.current_player]
         IN  [ok |-> TRUE,
              game |-> [g EXCEPT
                  !.board = b,
                  !.status = IF Connected(g.size, b, g.current_player)
                             THEN Finished(g.current_player) ELSE Ongoing,
                  !.current_player = Other(g.current_player)]]

\* MctsHexGame::get_winner
GetWinner(g) == g.status.player

-----------------------------------------------------------------------------
(* HexWidget::draw_game, geometry and hit test (app.rs:152-191) *)

\* rect.left_top() of the allocated response: the central panel's corner
RectLeftTop == <<1200, 800>>

\* app.rs:162-164
BaseOffset == <<RectLeftTop[1] + HEX_SIZE * 100, RectLeftTop[2] + HEX_SIZE * 100>>

\* `pos` without the half-cell shift of each row
PosNoSkew(x, y) ==
    <<BaseOffset[1] + HEX_SIZE * 100 * x, BaseOffset[2] + HEX_SIZE * y * 87>>

\* the closure `pos` of app.rs:171-175
Pos(x, y) ==
    <<BaseOffset[1] + HEX_SIZE * 100 * x + y * HEX_SIZE * 50,
      BaseOffset[2] + HEX_SIZE * y * 87>>

\* Pos2::distance_sq
DistanceSq(p, q) == (p[1] - q[1]) * (p[1] - q[1]) + (p[2] - q[2]) * (p[2] - q[2])

\* pointer.hover_pos() = None
NoPointer == <<-1000000, -1000000>>

\* the scan body with the selection radius included (`<=` for `<`)
HitTestStepRangeInclusive(acc, cursor_pos, x, y) ==
    IF cursor_pos = NoPointer THEN acc
    ELSE LET selection_range_sq == (HEX_SIZE * 100) * (HEX_SIZE * 100)
             distance_sq == DistanceSq(cursor_pos, Pos(x, y))
         IN  IF distance_sq <= selection_range_sq /\ distance_sq < acc.closest_distance
             THEN [closest_coord |-> <<x, y>>, closest_distance |-> distance_sq]
             ELSE acc

\* the scan body that never lowers closest_distance
HitTestStepNoUpdate(acc, cursor_pos, x, y) ==
    IF cursor_pos = NoPointer THEN acc
    ELSE LET selection_range_sq == (HEX_SIZE * 100) * (HEX_SIZE * 100)
             distance_sq == DistanceSq(cursor_pos, Pos(x, y))
         IN  IF distance_sq < selection_range_sq /\ distance_sq < acc.closest_distance
             THEN [closest_coord |-> <<x, y>>, closest_distance |-> acc.closest_distance]
             ELSE acc

\* the scan body in which an equally near cell replaces the candidate
HitTestStepLastWins(acc, cursor_pos, x, y) ==
    IF cursor_pos = NoPointer THEN acc
    ELSE LET selection_range_sq == (HEX_SIZE * 100) * (HEX_SIZE * 100)
             distance_sq == DistanceSq(cursor_pos, Pos(x, y))
         IN  IF distance_sq < selection_range_sq /\ distance_sq <= acc.closest_distance
             THEN [closest_coord |-> <<x, y>>, closest_distance |-> distance_sq]
             ELSE acc

\* body of the scan loop, app.rs:179-189: `acc` is
\* (closest_coord, closest_distance)
HitTestStep(acc, cursor_pos, x, y) ==
    IF cursor_pos = NoPointer THEN acc
    ELSE LET selection_range_sq == (HEX_SIZE * 100) * (HEX_SIZE * 100)
             distance_sq == DistanceSq(cursor_pos, Pos(x, y))
             is_within_selection_range == distance_sq < selection_range_sq
             is_closest == distance_sq < acc.closest_distance
         IN  IF is_within_selection_range /\ is_closest
             THEN [closest_coord |-> <<x, y>>, closest_distance |-> distance_sq]
             ELSE acc

RECURSIVE HitTestScan(_, _, _, _)
\* the loops `for x in 0..size { for y in 0..size` of app.rs:177-178, from
\* the k-th cell of the scan on
HitTestScan(acc, cursor_pos, size, k) ==
    IF k >= size * size THEN acc
    ELSE HitTestScan(HitTestStep(acc, cursor_pos, k \div size, k % size),
                     cursor_pos, size, k + 1)

\* app.rs:166-191: closest_coord after the scan, NoCell for None
HitTest(cursor_pos, size) ==
    HitTestScan([closest_coord |-> NoCell, closest_distance |-> F32_MAX],
                cursor_pos, size, 0).closest_coord

-----------------------------------------------------------------------------
(* The search oracle, mcts::Mcts::suggest_action and the extraction of its *)
(* action (app.rs:220-247)                                                 *)

NoNode == [kind |-> "no_node", coord |-> NoCell]
NoAction == [kind |-> "no_action", coord |-> NoCell]
Action(c) == [kind |-> "action", coord |-> c]

\* With full expansion the children of the root are the legal moves and the
\* robust child is one of them; a root without a legal move has no child to
\* recommend.  A faulty oracle may return anything.
SuggestAction(g, faulty) ==
    IF faulty
    THEN {NoNode, NoAction} \cup {Action(c) : c \in Cells(g.size)}
    ELSE IF g.status = Ongoing /\ EmptyCells(g) # {}
         THEN {Action(c) : c \in EmptyCells(g)}
         ELSE {NoAction}

-----------------------------------------------------------------------------
(* The record kept of the last event, for the properties: which handler    *)
(* ran and on which screen, the status before it, the pointer of a hover   *)
(* frame, the cell the hit test found, and what the click did              *)

BlankEv(kind, g) ==
    [kind |-> kind, screen |-> "none", from |-> g.status.tag,
     ptr |-> NoPointer, coord |-> NoCell, humanOk |-> FALSE,
     midPlayer |-> None, aiCalled |-> FALSE, aiKind |-> "none",
     aiHadMove |-> FALSE, aiLegal |-> FALSE, aiOk |-> FALSE]

FrameEv(g, screen, cursor_pos, clicked) ==
    [BlankEv(IF clicked THEN "click" ELSE "hover", g) EXCEPT
        !.screen = screen,
        !.ptr = IF clicked THEN NoPointer ELSE cursor_pos]

-----------------------------------------------------------------------------
(* HexWidget::draw_game, the click (app.rs:208-254) *)

\* a human move written to the board without asking the rules engine
HumanMoveOverwrite(g, c) ==
    [g EXCEPT !.board = [g.board EXCEPT ![c] = g.current_player],
              !.current_player = Other(g.current_player)]

\* app.rs:217, `self.game.play(Coords::new(x, y)).ok()`: the result is dropped
HumanMove(g, c) == Play(g, c).game

\* the AI reply without the check for a winner
AiNeededAlways(g) == TRUE

\* the check for a winner inverted (`is_some()`)
AiNeededInverted(g) == GetWinner(g) # None

\* app.rs:219, `if self.game.get_winner().is_none()`
AiNeeded(g) == GetWinner(g) = None

\* the AI reply with its failures dropped (`if let` and `.ok()` in place of the
\* three `expect`s)
AiMoveSwallow(g, faulty) ==
    {LET a == IF o.kind = "action" THEN Play(g, o.coord)
              ELSE [ok |-> FALSE, game |-> g]
     IN  [game |-> a.game,
          panicked |-> FALSE,
          aiKind |-> o.kind,
          aiHadMove |-> EmptyCells(g) # {},
          aiLegal |-> o.kind = "action" /\ InBounds(g, o.coord)
                      /\ g.board[o.coord] = None,
          aiOk |-> a.ok] : o \in SuggestAction(g, faulty)}

\* app.rs:220-249: the oracle's action is unwrapped (two `expect`s) and played
\* (a third `expect`); each failing `expect` panics
AiMove(g, faulty) ==
    {LET a == IF o.kind = "action" THEN Play(g, o.coord)
              ELSE [ok |-> FALSE, game |-> g]
     IN  [game |-> a.game,
          panicked |-> ~a.ok,
          aiKind |-> o.kind,
          aiHadMove |-> EmptyCells(g) # {},
          aiLegal |-> o.kind = "action" /\ InBounds(g, o.coord)
                      /\ g.board[o.coord] = None,
          aiOk |-> a.ok] : o \in SuggestAction(g, faulty)}

\* one frame of draw_game (app.rs:151-254): the possible results
DrawGame(g, cursor_pos, clicked, faulty) ==
    LET closest_coord == HitTest(cursor_pos, g.size)
        e0 == [FrameEv(g, "game", cursor_pos, clicked) EXCEPT
                  !.coord = closest_coord]
    IN  IF closest_coord = NoCell \/ ~clicked
        THEN {[game |-> g, panicked |-> FALSE, ev |-> e0]}
        ELSE LET g1 == HumanMove(g, closest_coord)
                 e1 == [e0 EXCEPT !.humanOk = Play(g, closest_coord).ok,
                                  !.midPlayer = g1.current_player]
             IN  IF AiNeeded(g1)
                 THEN {[game |-> r.game, panicked |-> r.panicked,
                        ev |-> [e1 EXCEPT !.aiCalled = TRUE,
                                          !.aiKind = r.aiKind,
                                          !.aiHadMove = r.aiHadMove,
                                          !.aiLegal = r.aiLegal,
                                          !.aiOk = r.aiOk]] :
                            r \in AiMove(g1, faulty)}
                 ELSE {[game |-> g1, panicked |-> FALSE, ev |-> e1]}

\* a victory screen on which a click starts the next game
DrawVictoryScreenRestart(g, cursor_pos, clicked) ==
    {[game |-> IF clicked THEN GameNew(g.size) ELSE g, panicked |-> FALSE,
      ev |-> FrameEv(g, "victory", cursor_pos, clicked)]}

\* app.rs:143-149: the victory screen shows a heading and handles no input
DrawVictoryScreen(g, cursor_pos, clicked) ==
    {[game |-> g, panicked |-> FALSE,
      ev |-> FrameEv(g, "victory", cursor_pos, clicked)]}

\* app.rs:129-136, HexWidget::ui
Ui(g, cursor_pos, clicked, faulty) ==
    IF g.status = Ongoing
    THEN DrawGame(g, cursor_pos, clicked, faulty)
    ELSE DrawVictoryScreen(g, cursor_pos, clicked)

-----------------------------------------------------------------------------
(* HexGameUi *)

\* app.rs:28 and app.rs:88, MctsHexGame::new(size, 0, 1)
MctsHexGameNew(size) == GameNew(size)

\* a reset that clears the board in place and keeps whose turn it is
ResetGameKeepPlayer(g, size) ==
    [MctsHexGameNew(size) EXCEPT !.current_player = g.current_player]

\* a reset that rebuilds the board at its present size
ResetGameKeepSize(g, size) == MctsHexGameNew(g.size)

\* app.rs:87-89, the "Reset game..." button: self.game is replaced
ResetGame(g, size) == MctsHexGameNew(size)

-----------------------------------------------------------------------------
(* Inputs: the pointer positions tried on a board of `size` are the centre *)
(* of every cell and some positions off the centres                        *)

\* centre of cell c: (HEX_SIZE*x + 0.5*HEX_SIZE*y, 0.87*HEX_SIZE*y) from the
\* origin, the corner of the widget moved by HEX_SIZE in both directions
CellCentre(c) ==
    <<RectLeftTop[1] + HEX_SIZE * 100 + HEX_SIZE * 100 * c[1] + HEX_SIZE * 50 * c[2],
      RectLeftTop[2] + HEX_SIZE * 100 + HEX_SIZE * 87 * c[2]>>

\* positions relative to the centre of cell (0,0)
OffCentre ==
    {<<0 - HEX_SIZE * 100, 0>>,    \* at the selection radius, left of (0,0)
     <<HEX_SIZE * 50, 0>>,         \* half way between (0,0) and (1,0)
     <<HEX_SIZE * 75, (HEX_SIZE * 87) \div 2>>, \* half way between (0,1) and (1,0)
     <<500, 300>>,                 \* inside cell (0,0)
     <<HEX_SIZE * 60, 100>>,       \* nearer to (1,0), in reach of (0,0) too
     <<1 - HEX_SIZE * 100, 0>>,    \* just inside the selection radius of (0,0)
     <<0 - HEX_SIZE * 300, 0 - HEX_SIZE * 300>>}  \* far from every cell

Pointers(size) ==
    {CellCentre(c) : c \in Cells(size)}
    \cup {<<CellCentre(<<0, 0>>)[1] + d[1], CellCentre(<<0, 0>>)[2] + d[2]>> :
             d \in OffCentre}
    \cup {NoPointer}

Min(a, b) == IF a < b THEN a ELSE b

-----------------------------------------------------------------------------
(* Actions *)

\* a frame (HexGameUi::update, app.rs:102-106) with the pointer somewhere and
\* no click; also shown for the default session, on which no move is explored
Hover ==
    /\ ~panicked
    /\ game.size <= MaxSize \/ game = MctsHexGameNew(DefaultSize)
    /\ \E p \in Pointers(game.size) :
         \E r \in Ui(game, p, FALSE, FALSE) :
            /\ game' = r.game
            /\ panicked' = r.panicked
            /\ ev' = r.ev
    /\ UNCHANGED configured_size

\* a frame in which the response is clicked
Click ==
    /\ ~panicked
    /\ game.size <= MaxSize
    /\ \E p \in Pointers(game.size) :
         \E r \in Ui(game, p, TRUE, FALSE) :
            /\ game' = r.game
            /\ panicked' = r.panicked
            /\ ev' = r.ev
    /\ UNCHANGED configured_size

\* the same frame with an oracle that may break its contract
ClickFaulty ==
    /\ ~panicked
    /\ game.size <= MaxSize
    /\ \E p \in Pointers(game.size) :
         \E r \in Ui(game, p, TRUE, TRUE) :
            /\ game' = r.game
            /\ panicked' = r.panicked
            /\ ev' = r.ev
    /\ UNCHANGED configured_size

\* app.rs:84, the slider writes configured_size
SetSize ==
    /\ ~panicked
    /\ \E s \in 0 .. Min(MaxSize, SliderMax) : configured_size' = s
    /\ ev' = BlankEv("setsize", game)
    /\ UNCHANGED <<game, panicked>>

\* app.rs:87-89
Reset ==
    /\ ~panicked
    /\ game' = ResetGame(game, configured_size)
    /\ ev' = BlankEv("reset", game)
    /\ UNCHANGED <<configured_size, panicked>>

\* app.rs:25-32, HexGameUi::default()
Init ==
    /\ game = MctsHexGameNew(DefaultSize)
    /\ configured_size = DefaultSize
    /\ panicked = FALSE
    /\ ev = BlankEv("init", MctsHexGameNew(DefaultSize))

Next == Hover \/ Click \/ SetSize \/ Reset

Spec == Init /\ [][Next]_vars

NextFaulty == Hover \/ ClickFaulty \/ SetSize \/ Reset

SpecFaulty == Init /\ [][NextFaulty]_vars

-----------------------------------------------------------------------------
(* Properties *)

\* the cells whose content differs between two boards of the same size
Changed(g, h) == {c \in Cells(g.size) : g.board[c] # h.board[c]}

\* the step is a click handled by draw_game that found cell ev'.coord
ClickOnCell == ev'.kind = "click" /\ ev'.screen = "game" /\ ev'.coord # NoCell

\* C1: a click that resolves to an occupied cell of an Ongoing game is
\* ignored: board, current player and status are as before the click and no
\* AI move is computed or applied.
C1_OccupiedClickIgnored ==
    [][(ClickOnCell /\ game.status = Ongoing /\ game.board[ev'.coord] # None)
          => (game' = game /\ ~ev'.aiCalled)]_vars

\* C2: within a session the current player alternates after every applied
\* move, human or AI, and is unchanged by a rejected move; the N-th applied
\* move (from 0) places a stone of player N % 2, player 0 starting.
C2_Alternation ==
    [][ClickOnCell =>
         LET n == Stones(game)
             h == IF ev'.humanOk THEN 1 ELSE 0
             new == Changed(game, game')
         IN  /\ PlayerIndex(game.current_player) = n % 2
             /\ IF ev'.humanOk
                THEN /\ ev'.coord \in new
                     /\ PlayerIndex(game'.board[ev'.coord]) = n % 2
                     /\ ev'.midPlayer = Other(game.current_player)
                ELSE /\ ev'.coord \notin new
                     /\ ev'.midPlayer = game.current_player
             /\ IF ev'.aiOk
                THEN /\ \E d \in new \ {ev'.coord} :
                          /\ new \ {ev'.coord} = {d}
                          /\ PlayerIndex(game'.board[d]) = (n + h) % 2
                     /\ game'.current_player = Other(ev'.midPlayer)
                ELSE /\ new \ {ev'.coord} = {}
                     /\ game'.current_player = ev'.midPlayer
             /\ PlayerIndex(game'.current_player) = Stones(game') % 2]_vars

\* a click placed a human and an AI stone as the third and fourth of a session
C2_Witness ==
    ev.kind = "click" /\ ev.humanOk /\ ev.aiOk /\ Stones(game) >= 4

\* C3: Finished is terminal within a session: once the status is Finished,
\* every frame that is not a new-game request leaves board, current player
\* and status unchanged, so the status never returns to Ongoing.
C3_FinishedTerminal ==
    [][(game.status.tag = "Finished" /\ ev'.kind # "reset") => game' = game]_vars

\* a click arrived on the victory screen
C3_Witness ==
    ev.kind = "click" /\ ev.from = "Finished" /\ game.status.tag = "Finished"

\* C4: after a click the session differs from the one before by one
\* completed ply or by nothing: the human stone on the clicked cell and one
\* AI stone on another empty cell, or the human stone alone with the status
\* Finished, or no change.
C4_OnePly ==
    [][ev'.kind = "click" =>
         \/ game' = game
         \/ /\ ev'.coord # NoCell
            /\ game.board[ev'.coord] = None
            /\ game'.board[ev'.coord] = game.current_player
            /\ \/ /\ Changed(game, game') = {ev'.coord}
                  /\ game'.status = Finished(game.current_player)
               \/ \E d \in EmptyCells(game) \ {ev'.coord} :
                     /\ Changed(game, game') = {ev'.coord, d}
                     /\ game'.board[d] = Other(game.current_player)]_vars

\* C5: a new-game request made in any state replaces the session by one of
\* the configured size with an empty board, status Ongoing and the starting
\* player of the initial default session.
C5_Reset ==
    [][ev'.kind = "reset" =>
         /\ game'.size = configured_size
         /\ DOMAIN game'.board = Cells(configured_size)
         /\ \A c \in Cells(configured_size) : game'.board[c] = None
         /\ game'.status = Ongoing
         /\ game'.current_player = MctsHexGameNew(DefaultSize).current_player
         /\ game'.current_player = Black]_vars

\* a finished game was reset to a board of another size
C5_Witness ==
    /\ ev.kind = "reset" /\ ev.from = "Finished"
    /\ game.size = 1 /\ game.status = Ongoing /\ Stones(game) = 0

\* C6: whenever the AI move selector is invoked the board has an empty
\* cell; a click after which the board is full leaves the status Finished.
C6_AiHasMove ==
    /\ ev.aiCalled => ev.aiHadMove
    /\ (ev.kind = "click" /\ ev.coord # NoCell /\ EmptyCells(game) = {})
          => game.status.tag = "Finished"

\* the AI was invoked with one empty cell left and filled the board
C6_Witness ==
    ev.aiCalled /\ ev.aiOk /\ game.size = MaxSize /\ EmptyCells(game) = {}

\* C7: in a new game of size 1 a click on cell (0,0) places the starting
\* player's stone there and finishes the game with that player as winner,
\* and no AI move is computed or applied.
C7_SizeOne ==
    [][(ClickOnCell /\ game = MctsHexGameNew(1) /\ ev'.coord = <<0, 0>>)
          => /\ game'.board[<<0, 0>>] = game.current_player
             /\ game'.board[<<0, 0>>] = Black
             /\ game'.status = Finished(Black)
             /\ ~ev'.aiCalled
             /\ ~panicked']_vars

\* the only cell of a board of size 1 was clicked and the move applied
C7_Witness ==
    /\ game.size = 1 /\ ev.kind = "click" /\ ev.coord = <<0, 0>> /\ ev.humanOk
    /\ ev.from = "Ongoing"

\* C8: the AI never plays on an occupied cell: whenever it is invoked the
\* coordinate it returns is in bounds and empty before the move, the move is
\* applied and no `expect` fires.
C8_AiMoveLegal ==
    /\ ev.aiCalled => (ev.aiKind = "action" /\ ev.aiLegal /\ ev.aiOk)
    /\ ~panicked

\* the AI replied on a board that already held stones
C8_Witness ==
    ev.aiCalled /\ ev.aiOk /\ ev.humanOk /\ Stones(game) >= 4

\* C9: when the AI fails to produce a move after a successful human move
\* (no node, no action, or an action the rules engine rejects), the failure
\* is raised (the handler panics) and the session holds the human's stone
\* and nothing more: no further stone, the turn is the one after the human's
\* move.
C9_AiFailureSurfaced ==
    [][(ClickOnCell /\ ev'.humanOk /\ ev'.aiCalled /\ ~ev'.aiOk)
          => /\ panicked'
             /\ game'.board = [game.board EXCEPT ![ev'.coord] = game.current_player]
             /\ game.board[ev'.coord] = None
             /\ game'.current_player = Other(game.current_player)
             /\ game'.status = Ongoing
             /\ game'.size = game.size]_vars

\* the oracle returned an occupied cell after a successful human move
C9_Witness ==
    /\ panicked /\ ev.kind = "click" /\ ev.humanOk /\ ev.aiCalled
    /\ ev.aiKind = "action" /\ ~ev.aiLegal /\ ~ev.aiOk

\* C10: on a board of any size, the hit test of a pointer at the centre of
\* an in-bounds cell (x, y) returns (x, y).
C10_CentreHit ==
    (ev.kind = "hover" /\ ev.screen = "game")
       => \A c \in Cells(game.size) : ev.ptr = CellCentre(c) => ev.coord = c

\* the pointer was at the centre of the last cell of the default board
C10_Witness ==
    /\ ev.kind = "hover" /\ ev.screen = "game" /\ game.size = DefaultSize
    /\ ev.ptr = CellCentre(<<DefaultSize - 1, DefaultSize - 1>>)
    /\ ev.coord = <<DefaultSize - 1, DefaultSize - 1>>

\* squared selection radius, HEX_SIZE squared
RadiusSq == (HEX_SIZE * 100) * (HEX_SIZE * 100)

\* the frame was drawn by draw_game with the pointer at a position
HoverAt == ev.kind = "hover" /\ ev.screen = "game" /\ ev.ptr # NoPointer

\* C11: the hit test returns no cell when the pointer is at a distance of
\* the cell size or more from every cell centre, or when the board size is
\* 0; a click with no cell under the pointer leaves board, current player
\* and status unchanged and triggers no AI move.
C11_NoCell ==
    [][/\ (ev'.kind \in {"hover", "click"} /\ ev'.screen = "game" /\ game.size = 0)
             => ev'.coord = NoCell
       /\ (ev'.kind = "hover" /\ ev'.screen = "game" /\ ev'.ptr # NoPointer
              /\ \A c \in Cells(game.size) :
                     DistanceSq(ev'.ptr, CellCentre(c)) >= RadiusSq)
             => ev'.coord = NoCell
       /\ (ev'.kind = "click" /\ ev'.coord = NoCell)
             => (game' = game /\ ~ev'.aiCalled /\ ~ev'.humanOk
                  /\ panicked' = panicked)]_vars

\* the pointer was exactly at the selection radius of the nearest cell of a
\* board with stones on it
C11_Witness ==
    /\ HoverAt /\ game.size = MaxSize /\ Stones(game) > 0
    /\ DistanceSq(ev.ptr, CellCentre(<<0, 0>>)) = RadiusSq
    /\ \A c \in Cells(game.size) : DistanceSq(ev.ptr, CellCentre(c)) >= RadiusSq
    /\ ev.coord = NoCell

\* the least squared distance from position p to a cell centre of the board
\* (F32_MAX on a board without cells)
MinDistanceSq(p, size) ==
    IF size = 0 THEN F32_MAX
    ELSE CHOOSE d \in {DistanceSq(p, CellCentre(c)) : c \in Cells(size)} :
            \A c \in Cells(size) : d <= DistanceSq(p, CellCentre(c))

\* C13: for every pointer position and board size the hit test returns a
\* cell whose squared distance to the pointer is the least over all cell
\* centres when that least squared distance is strictly below HEX_SIZE
\* squared, and no cell otherwise (so none at exactly HEX_SIZE squared).
C13_Nearest ==
    HoverAt =>
       LET dmin == MinDistanceSq(ev.ptr, game.size)
       IN  IF dmin < RadiusSq
           THEN /\ ev.coord \in Cells(game.size)
                /\ DistanceSq(ev.ptr, CellCentre(ev.coord)) = dmin
           ELSE ev.coord = NoCell

\* the pointer was off the centres, within the radius of two cells, and the
\* nearer one was found although it comes later in the scan
C13_Witness ==
    /\ HoverAt /\ game.size >= 2
    /\ DistanceSq(ev.ptr, CellCentre(<<0, 0>>)) < RadiusSq
    /\ DistanceSq(ev.ptr, CellCentre(<<1, 0>>)) < DistanceSq(ev.ptr, CellCentre(<<0, 0>>))
    /\ ev.coord = <<1, 0>>

\* c comes before d in the scan: x in the outer loop, y in the inner loop
ScanBefore(c, d) == c[1] < d[1] \/ (c[1] = d[1] /\ c[2] < d[2])

\* C16: when several cell centres are at the same least distance from the
\* pointer, within the selection radius, the hit test returns the first of
\* them in scan order (x ascending in the outer loop, y ascending in the
\* inner loop).
C16_TieFirstInScan ==
    HoverAt =>
       LET dmin == MinDistanceSq(ev.ptr, game.size)
           nearest == {c \in Cells(game.size) :
                          DistanceSq(ev.ptr, CellCentre(c)) = dmin}
       IN  (dmin < RadiusSq /\ Cardinality(nearest) >= 2)
              => /\ ev.coord \in nearest
                 /\ \A d \in nearest \ {ev.coord} : ScanBefore(ev.coord, d)

\* the pointer was half way between cells (0,1) and (1,0), which differ in x
\* and y, and (0,1) was returned
C16_Witness ==
    /\ HoverAt /\ game.size >= 2
    /\ DistanceSq(ev.ptr, CellCentre(<<0, 1>>)) = DistanceSq(ev.ptr, CellCentre(<<1, 0>>))
    /\ MinDistanceSq(ev.ptr, game.size) = DistanceSq(ev.ptr, CellCentre(<<0, 1>>))
    /\ ev.coord = <<0, 1>>

\* C14: every stone placed by a human click has the starting player's
\* colour and every stone placed by the AI the other colour: whenever the
\* game is Ongoing between events the starting player is to move, and the
\* AI never moves on the starting player's turn.
C14_HumanStartsEveryPly ==
    [][/\ game.status = Ongoing => game.current_player = Black
       /\ ClickOnCell =>
            /\ ev'.humanOk => game'.board[ev'.coord] = Black
            /\ ev'.aiOk => /\ ev'.midPlayer = White
                           /\ \A d \in Changed(game, game') \ {ev'.coord} :
                                 game'.board[d] = White]_vars

\* C15: within a session the board only grows: a frame that is not a
\* new-game request leaves every stone where and as it is and keeps the
\* size, and each applied move (the human's, then the AI's) turns exactly
\* one empty cell into a stone of the mover's colour.
C15_BoardGrows ==
    [][ev'.kind # "reset" =>
         LET new == Changed(game, game')
             h == IF ev'.humanOk THEN 1 ELSE 0
             a == IF ev'.aiOk THEN 1 ELSE 0
         IN  /\ game'.size = game.size
             /\ DOMAIN game'.board = Cells(game.size)
             /\ \A c \in Cells(game.size) :
                   game.board[c] # None => game'.board[c] = game.board[c]
             /\ \A c \in new : game.board[c] = None /\ game'.board[c] \in Colors
             /\ Cardinality(new) = h + a
             /\ ev'.humanOk => /\ ev'.coord \in new
                               /\ game'.board[ev'.coord] = game.current_player
             /\ ev'.aiOk => \E d \in new \ {ev'.coord} :
                               game'.board[d] = ev'.midPlayer]_vars

\* a click on an occupied cell of a board that ends with three stones or more
\* was rejected and left every earlier stone as it was
C15_Witness ==
    /\ ev.kind = "click" /\ ev.coord # NoCell /\ ~ev.humanOk
    /\ game.board[ev.coord] # None /\ Stones(game) >= 3

====
